---------------------------- MODULE Spec2Model ----------------------------
(***************************************************************************)
(* Model of the pattern-discovery scripts:                                 *)
(*   scripts/pattern_analyzer.py   PatternAnalyzer  (CI-time analyzer)     *)
(*   scripts/precommit_checker.py  PreCommitChecker (local commit hook)    *)
(*                                                                         *)
(* The shared state is the remote knowledge-base document                  *)
(* knowledge_base.json.  Every analyzer run is a sequential process whose  *)
(* remote round trips are the atomic steps; independent CI runs interleave *)
(* between round trips.  Python dicts are functions with string domains;   *)
(* the 'repositories' dict is a sequence of <name, data> items, in         *)
(* insertion order, because its iteration order is observable.             *)
(***************************************************************************)
EXTENDS Integers, Sequences, FiniteSets, TLC

VARIABLES
    clock,         \* the wall clock read by datetime.now()
    remote,        \* knowledge_base.json in the knowledge-base repository
    cfg,           \* per run: the environment read by __init__
    pc,            \* per run: position in run() / update_knowledge_base()
    ret,           \* per run: where update_knowledge_base returns to
    changes,       \* per run: result of get_recent_changes
    response,      \* per run: the LLM round trip's outcome
    patterns,      \* per run: the PatternRecord (pattern_data)
    kb,            \* per run: the document held in memory (loaded, then modified)
    loaded,        \* per run: the document load_knowledge_base returned to the update
    wsha,          \* per run: content_file.sha fetched for update_file
    failed,        \* per run: a remote operation of the current update raised
    updOk,         \* per run: "Knowledge base updated successfully" was reached
    similarities,  \* per run: result of find_similar_patterns
    calls,         \* per run: external interactions performed so far
    drv,           \* the direct caller of update_knowledge_base: its observations
    checker        \* the PreCommitChecker process

vars == << clock, remote, cfg, pc, ret, changes, response, patterns, kb, loaded,
           wsha, failed, updOk, similarities, calls, drv, checker >>

-----------------------------------------------------------------------------
(* Bounds *)

MaxClock == 1

MaxSimRepos == 7

MaxCalls == 2

\* similarities[:5]
TopN == 5

-----------------------------------------------------------------------------
(* Generic helpers for Python values *)

None == "None"

NoFile == [absent |-> TRUE]

\* an empty dict, and a local that holds nothing yet
Empty == <<>>

Min(a, b) == IF a < b THEN a ELSE b

\* list[:n]
Take(s, n) == SubSeq(s, 1, Min(n, Len(s)))

\* set(list)
ToSet(s) == { s[i] : i \in DOMAIN s }

\* dict.get(key, default)
Get(d, k, default) == IF k \in DOMAIN d THEN d[k] ELSE default

\* d[key] = value
Put(d, k, v) == [ x \in (DOMAIN d) \cup {k} |-> IF x = k THEN v ELSE d[x] ]

Last(s) == s[Len(s)]

\* key in kb['repositories']
RepoNames(doc) == { doc.repositories[i].name : i \in DOMAIN doc.repositories }

HasRepo(doc, name) == name \in RepoNames(doc)

RepoIndex(doc, name) == CHOOSE i \in DOMAIN doc.repositories : doc.repositories[i].name = name

\* kb['repositories'][name]
RepoData(doc, name) == doc.repositories[RepoIndex(doc, name)].data

\* datetime.now().isoformat()
Now == clock

\* The git blob sha of the file is a hash of its content: equal exactly for
\* equal contents.
Sha(doc) == doc

-----------------------------------------------------------------------------
(* The analyzer processes and their environment *)

\* Two independent CI runs, in two source repositories, sharing one document.
Runs == {1, 2}

CurrentRepo(r) == IF r = 1 THEN "org/a" ELSE "org/b"

CurrentSha(r) == IF r = 1 THEN "sha1" ELSE "sha2"

KbRepo == "org/kb"

\* What git hands to get_recent_changes: a failure, or the commit's diff. A path
\* is the sequence of the pieces the ignore patterns look at.
GitOutcomes == { [ok |-> FALSE, diff |-> <<>>],
                 [ok |-> TRUE, diff |-> <<>>],
                 [ok |-> TRUE, diff |-> << <<"yarn", ".lock">>, <<"node_modules/", "x", ".js">> >>],
                 [ok |-> TRUE, diff |-> << <<"yarn", ".lock">>, <<"src/", "app", ".py">> >>] }

SuffixNoise == { ".lock", "package-lock.json", ".min.js", ".map", ".pyc" }

SubstringNoise == { "__pycache__", ".git/", "node_modules/", ".DS_Store" }

_is_meaningful_file(path) ==
    ~ ( Last(path) \in SuffixNoise \/ ToSet(path) \cap SubstringNoise # {} )

RECURSIVE FilterMeaningful(_)
FilterMeaningful(diff) ==
    IF diff = <<>> THEN <<>>
    ELSE LET rest == FilterMeaningful(Tail(diff))
         IN IF _is_meaningful_file(Head(diff))
            THEN << [path |-> Head(diff)] >> \o rest
            ELSE rest

get_recent_changes(sha, git) ==
    IF git.ok
    THEN [commit_sha |-> sha, files_changed |-> FilterMeaningful(git.diff)]
    ELSE [error |-> "git error"]

\* The six-key objects the model is asked for.
Reply1 == [patterns |-> <<"retry logic">>, decisions |-> <<"use requests">>,
           reusable_components |-> <<>>, dependencies |-> <<"requests">>,
           problem_domain |-> "http client", keywords |-> <<"http", "retry">>]

Reply2 == [patterns |-> <<"retry logic">>, decisions |-> <<>>,
           reusable_components |-> <<>>, dependencies |-> <<>>,
           problem_domain |-> "caching", keywords |-> <<"http", "cache">>]

Fence == [tok |-> "fence"]

Obj(d) == [tok |-> "object", data |-> d]

\* A reply cut short: the closing brace is missing.
Broken == [tok |-> "broken"]

\* The LLM round trip: the API raises, or returns a text.
LLMResponses == { [api |-> "error", text |-> <<>>],
                  [api |-> "ok", text |-> <<Fence, Obj(Reply1), Fence>>],
                  [api |-> "ok", text |-> <<Obj(Reply2)>>],
                  [api |-> "ok", text |-> <<Fence, Broken, Fence>>] }

\* re.sub(r'```json\n?|\n?```', '', content).strip()
StripFences(text) == SelectSeq(text, LAMBDA t : t # Fence)

\* json.loads succeeds on exactly one well-formed value
JsonLoads(text) ==
    IF Len(text) = 1 /\ text[1].tok = "object"
    THEN [ok |-> TRUE, value |-> text[1].data]
    ELSE [ok |-> FALSE, value |-> <<>>]

ErrorRecord(msg) ==
    [error |-> msg, patterns |-> <<>>, decisions |-> <<>>,
     reusable_components |-> <<>>, dependencies |-> <<>>,
     problem_domain |-> "unknown", keywords |-> <<>>]

\* The handler of lines 140-150 returning an empty dict
extract_patterns_with_llm_bare(resp, now, sha) ==
    IF resp.api # "ok"
    THEN Empty
    ELSE LET parsed == JsonLoads(StripFences(resp.text))
         IN IF parsed.ok
            THEN Put(Put(parsed.value, "analyzed_at", now), "commit_sha", sha)
            ELSE Empty

extract_patterns_with_llm(resp, now, sha) ==
    IF resp.api # "ok"
    THEN ErrorRecord("api error")
    ELSE LET parsed == JsonLoads(StripFences(resp.text))
         IN IF parsed.ok
            THEN Put(Put(parsed.value, "analyzed_at", now), "commit_sha", sha)
            ELSE ErrorRecord("json decode error")

\* Outcomes of the remote round trips of one load or one write phase.
LoadOutcomes == { "ok", "get_repo_error", "get_contents_error" }

load_knowledge_base(kbname, out) ==
    IF kbname = None THEN [repositories |-> <<>>]
    ELSE IF out = "get_repo_error" THEN [repositories |-> <<>>]
    ELSE IF out = "get_contents_error" \/ remote = NoFile
         THEN [repositories |-> <<>>, created_at |-> Now]
    ELSE remote

\* Whether a remote operation of the load raised (a missing file is no failure).
LoadFailed(kbname, out) == kbname # None /\ out # "ok"

\* Line 196 assigning the history instead of appending to it
ModifyKbReplaceHistory(doc, repo, pattern_data, sha, now) ==
    LET d1 == IF HasRepo(doc, repo) THEN doc
              ELSE [doc EXCEPT !.repositories =
                        Append(@, [name |-> repo,
                                   data |-> [patterns |-> <<>>, history |-> <<>>]])]
        i  == CHOOSE j \in DOMAIN d1.repositories : d1.repositories[j].name = repo
        entry == [timestamp |-> now, commit_sha |-> sha, patterns |-> pattern_data]
        d2 == [d1 EXCEPT !.repositories[i].data.history = <<entry>>]
        d3 == [d2 EXCEPT !.repositories[i].data.patterns = pattern_data]
    IN Put(d3, "last_updated", now)

\* Lines 182-198: the in-memory update of the loaded document.
ModifyKb(doc, repo, pattern_data, sha, now) ==
    LET d1 == IF HasRepo(doc, repo) THEN doc
              ELSE [doc EXCEPT !.repositories =
                        Append(@, [name |-> repo,
                                   data |-> [patterns |-> <<>>, history |-> <<>>]])]
        i  == RepoIndex(d1, repo)
        entry == [timestamp |-> now, commit_sha |-> sha, patterns |-> pattern_data]
        d2 == [d1 EXCEPT !.repositories[i].data.history = Append(@, entry)]
        d3 == [d2 EXCEPT !.repositories[i].data.patterns = pattern_data]
    IN Put(d3, "last_updated", now)

\* A write that would re-read the file and add the entry to what it holds now
WrittenDocMerged(r) ==
    ModifyKb(IF remote = NoFile THEN [repositories |-> <<>>] ELSE remote,
             CurrentRepo(r), patterns[r], CurrentSha(r), Now)

\* kb_json handed to update_file / create_file: the whole in-memory document.
WrittenDoc(r) == kb[r]

\* Overlaps counted over the lists, not over the sets
SimilarityByList(current_patterns, item) ==
    LET kws == Get(current_patterns, "keywords", <<>>)
        pats == Get(current_patterns, "patterns", <<>>)
        repo_patterns == Get(item.data, "patterns", <<>>)
        repo_keywords == ToSet(Get(repo_patterns, "keywords", <<>>))
        repo_patterns_list == ToSet(Get(repo_patterns, "patterns", <<>>))
    IN [repository |-> item.name,
        keyword_overlap |-> Cardinality({ i \in DOMAIN kws : kws[i] \in repo_keywords }),
        pattern_overlap |-> Cardinality({ i \in DOMAIN pats : pats[i] \in repo_patterns_list }),
        matching_patterns |-> ToSet(pats) \cap repo_patterns_list,
        matching_keywords |-> ToSet(kws) \cap repo_keywords,
        repo_patterns |-> repo_patterns]

\* One similarity entry (lines 239-255).
Similarity(current_patterns, item) ==
    LET current_keywords == ToSet(Get(current_patterns, "keywords", <<>>))
        current_patterns_list == Get(current_patterns, "patterns", <<>>)
        repo_patterns == Get(item.data, "patterns", <<>>)
        repo_keywords == ToSet(Get(repo_patterns, "keywords", <<>>))
        repo_patterns_list == Get(repo_patterns, "patterns", <<>>)
    IN [repository |-> item.name,
        keyword_overlap |-> Cardinality(current_keywords \cap repo_keywords),
        pattern_overlap |-> Cardinality(ToSet(current_patterns_list) \cap ToSet(repo_patterns_list)),
        matching_patterns |-> ToSet(current_patterns_list) \cap ToSet(repo_patterns_list),
        matching_keywords |-> current_keywords \cap repo_keywords,
        repo_patterns |-> repo_patterns]

Score(x) == x.keyword_overlap + x.pattern_overlap

\* The loop of lines 235-255, in iteration order.
RECURSIVE Collect(_, _, _)
Collect(current_patterns, items, current_repo) ==
    IF items = <<>> THEN <<>>
    ELSE LET rest == Collect(current_patterns, Tail(items), current_repo)
             sim == Similarity(current_patterns, Head(items))
         IN IF Head(items).name = current_repo THEN rest
            ELSE IF sim.keyword_overlap > 0 \/ sim.pattern_overlap > 0
                 THEN <<sim>> \o rest
                 ELSE rest

\* A descending sort that puts x before the elements of equal score
RECURSIVE InsertDescUnstable(_, _)
InsertDescUnstable(x, sorted) ==
    IF sorted = <<>> THEN <<x>>
    ELSE IF Score(Head(sorted)) > Score(x)
         THEN <<Head(sorted)>> \o InsertDescUnstable(x, Tail(sorted))
         ELSE <<x>> \o sorted

\* list.sort(key=score, reverse=True): stable, descending. x goes behind every
\* element already placed whose score is at least its own.
RECURSIVE InsertDesc(_, _)
InsertDesc(x, sorted) ==
    IF sorted = <<>> THEN <<x>>
    ELSE IF Score(Head(sorted)) >= Score(x)
         THEN <<Head(sorted)>> \o InsertDesc(x, Tail(sorted))
         ELSE <<x>> \o sorted

RECURSIVE SortDesc(_)
SortDesc(s) ==
    IF s = <<>> THEN <<>>
    ELSE InsertDesc(Last(s), SortDesc(SubSeq(s, 1, Len(s) - 1)))

find_similar_patterns(current_patterns, kbdoc, current_repo) ==
    Take(SortDesc(Collect(current_patterns, Get(kbdoc, "repositories", <<>>), current_repo)), TopN)

-----------------------------------------------------------------------------
(* PatternAnalyzer.run and update_knowledge_base, one action per round trip *)

SeedRecord == Put(Put(Reply1, "analyzed_at", 0), "commit_sha", "sha0")

\* A document written by an earlier run for a third repository.
SeedDoc ==
    [repositories |->
        << [name |-> "org/z",
            data |-> [patterns |-> SeedRecord,
                      history |-> << [timestamp |-> 0, commit_sha |-> "sha0",
                                      patterns |-> SeedRecord] >>]] >>,
     last_updated |-> 0]

Called(r, what) == calls' = [calls EXCEPT ![r] = @ \cup what]

\* update_knowledge_base returns: its locals are gone.
Return(r) ==
    /\ pc' = [pc EXCEPT ![r] = ret[r]]
    /\ kb' = [kb EXCEPT ![r] = Empty]
    /\ loaded' = [loaded EXCEPT ![r] = Empty]
    /\ wsha' = [wsha EXCEPT ![r] = Empty]

\* run() without the check of the error marker (lines 305-307)
run_get_changes_unchecked(r) ==
    /\ pc[r] = "start"
    /\ \E git \in GitOutcomes :
         changes' = [changes EXCEPT ![r] = get_recent_changes(CurrentSha(r), git)]
    /\ pc' = [pc EXCEPT ![r] = "extract"]
    /\ Called(r, {"git"})
    /\ UNCHANGED << clock, remote, cfg, ret, response, patterns, kb, loaded, wsha,
                    failed, updOk, similarities, drv, checker >>

\* Lines 303-311
run_get_changes(r) ==
    /\ pc[r] = "start"
    /\ \E git \in GitOutcomes :
         LET c == get_recent_changes(CurrentSha(r), git)
         IN /\ changes' = [changes EXCEPT ![r] = c]
            /\ pc' = [pc EXCEPT ![r] =
                        IF "error" \in DOMAIN c THEN "done"
                        ELSE IF c.files_changed = <<>> THEN "done"
                        ELSE "extract"]
    /\ Called(r, {"git"})
    /\ UNCHANGED << clock, remote, cfg, ret, response, patterns, kb, loaded, wsha,
                    failed, updOk, similarities, drv, checker >>

\* Lines 315-317
run_extract(r) ==
    /\ pc[r] = "extract"
    /\ \E resp \in LLMResponses :
         /\ response' = [response EXCEPT ![r] = resp]
         /\ patterns' = [patterns EXCEPT ![r] =
                            extract_patterns_with_llm(resp, Now, CurrentSha(r))]
    /\ Called(r, {"llm"})
    /\ pc' = [pc EXCEPT ![r] = "save"]
    /\ UNCHANGED << clock, remote, cfg, ret, changes, kb, loaded, wsha, failed,
                    updOk, similarities, drv, checker >>

\* Lines 319-328: write pattern_analysis.json, then call update_knowledge_base
run_save(r) ==
    /\ pc[r] = "save"
    /\ Called(r, {"file"})
    /\ pc' = [pc EXCEPT ![r] = "update"]
    /\ ret' = [ret EXCEPT ![r] = "load2"]
    /\ failed' = [failed EXCEPT ![r] = FALSE]
    /\ updOk' = [updOk EXCEPT ![r] = FALSE]
    /\ UNCHANGED << clock, remote, cfg, changes, response, patterns, kb, loaded,
                    wsha, similarities, drv, checker >>

\* Lines 175-177
update_knowledge_base_unconfigured(r) ==
    /\ pc[r] = "update"
    /\ cfg[r].kb_repo_name = None
    /\ pc' = [pc EXCEPT ![r] = ret[r]]
    /\ UNCHANGED << clock, remote, cfg, ret, changes, response, patterns, kb, loaded,
                    wsha, failed, updOk, similarities, calls, drv, checker >>

\* Lines 180-198: load the document and update the copy in memory
update_knowledge_base_load(r) ==
    /\ pc[r] = "update"
    /\ cfg[r].kb_repo_name # None
    /\ \E out \in LoadOutcomes :
         LET doc == load_knowledge_base(cfg[r].kb_repo_name, out)
         IN /\ loaded' = [loaded EXCEPT ![r] = doc]
            /\ kb' = [kb EXCEPT ![r] =
                        ModifyKb(doc, CurrentRepo(r), patterns[r], CurrentSha(r), Now)]
            /\ failed' = [failed EXCEPT ![r] = LoadFailed(cfg[r].kb_repo_name, out)]
    /\ Called(r, {"kb_read"})
    /\ pc' = [pc EXCEPT ![r] = "u_get_contents"]
    /\ UNCHANGED << clock, remote, cfg, ret, changes, response, patterns, wsha,
                    updOk, similarities, drv, checker >>

\* Lines 201-206: get_repo, then get_contents for the file's current sha
update_knowledge_base_get_contents(r) ==
    /\ pc[r] = "u_get_contents"
    /\ \E out \in LoadOutcomes :
         \/ /\ out = "get_repo_error"
            /\ failed' = [failed EXCEPT ![r] = TRUE]
            /\ Return(r)
         \/ /\ out = "get_contents_error"
            /\ failed' = [failed EXCEPT ![r] = TRUE]
            /\ pc' = [pc EXCEPT ![r] = "u_create"]
            /\ UNCHANGED << kb, loaded, wsha >>
         \/ /\ out = "ok"
            /\ remote = NoFile
            /\ pc' = [pc EXCEPT ![r] = "u_create"]
            /\ UNCHANGED << kb, loaded, wsha, failed >>
         \/ /\ out = "ok"
            /\ remote # NoFile
            /\ wsha' = [wsha EXCEPT ![r] = Sha(remote)]
            /\ pc' = [pc EXCEPT ![r] = "u_update"]
            /\ UNCHANGED << kb, loaded, failed >>
    /\ Called(r, {"kb_read"})
    /\ UNCHANGED << clock, remote, cfg, ret, changes, response, patterns,
                    updOk, similarities, drv, checker >>

\* Lines 207-213, 223: update_file with the sha just fetched. The store accepts
\* it only while that sha is still the file's.
update_knowledge_base_update_file(r) ==
    /\ pc[r] = "u_update"
    /\ \E out \in {"ok", "error"} :
         IF out = "ok" /\ wsha[r] = Sha(remote)
         THEN /\ remote' = WrittenDoc(r)
              /\ updOk' = [updOk EXCEPT ![r] = TRUE]
              /\ Return(r)
              /\ UNCHANGED failed
         ELSE /\ failed' = [failed EXCEPT ![r] = TRUE]
              /\ pc' = [pc EXCEPT ![r] = "u_create"]
              /\ UNCHANGED << remote, updOk, kb, loaded, wsha >>
    /\ Called(r, {"kb_write"})
    /\ UNCHANGED << clock, cfg, ret, changes, response, patterns,
                    similarities, drv, checker >>

\* Lines 214-226: create_file. The store refuses it when the file exists; that
\* exception reaches the outer handler, which logs and returns.
update_knowledge_base_create_file(r) ==
    /\ pc[r] = "u_create"
    /\ \E out \in {"ok", "error"} :
         IF out = "ok" /\ remote = NoFile
         THEN /\ remote' = WrittenDoc(r)
              /\ updOk' = [updOk EXCEPT ![r] = TRUE]
              /\ UNCHANGED failed
         ELSE /\ failed' = [failed EXCEPT ![r] = TRUE]
              /\ UNCHANGED << remote, updOk >>
    /\ Return(r)
    /\ Called(r, {"kb_write"})
    /\ UNCHANGED << clock, cfg, ret, changes, response, patterns,
                    similarities, drv, checker >>

\* Line 332
run_load(r) ==
    /\ pc[r] = "load2"
    /\ \E out \in LoadOutcomes :
         kb' = [kb EXCEPT ![r] = load_knowledge_base(cfg[r].kb_repo_name, out)]
    /\ Called(r, IF cfg[r].kb_repo_name = None THEN {} ELSE {"kb_read"})
    /\ pc' = [pc EXCEPT ![r] = "find"]
    /\ UNCHANGED << clock, remote, cfg, ret, changes, response, patterns, loaded,
                    wsha, failed, updOk, similarities, drv, checker >>

\* Line 333
run_find(r) ==
    /\ pc[r] = "find"
    /\ similarities' = [similarities EXCEPT ![r] =
                           find_similar_patterns(patterns[r], kb[r], CurrentRepo(r))]
    /\ pc' = [pc EXCEPT ![r] = "notify"]
    /\ UNCHANGED << clock, remote, cfg, ret, changes, response, patterns, kb, loaded,
                    wsha, failed, updOk, calls, drv, checker >>

\* run returns and the process ends: what it held in memory is gone.
Exit(r) ==
    /\ response' = [response EXCEPT ![r] = Empty]
    /\ patterns' = [patterns EXCEPT ![r] = Empty]
    /\ kb' = [kb EXCEPT ![r] = Empty]
    /\ similarities' = [similarities EXCEPT ![r] = <<>>]

\* Lines 336-345 and notify (262-297); WEBHOOK_URL is read where it is used
run_notify(r) ==
    /\ pc[r] = "notify"
    /\ \/ /\ similarities[r] = <<>>
          /\ UNCHANGED calls
       \/ /\ similarities[r] # <<>>
          /\ \E webhook_url \in {None, "https://hook"} :
               Called(r, IF webhook_url = None THEN {} ELSE {"webhook"})
    /\ pc' = [pc EXCEPT ![r] = "done"]
    /\ Exit(r)
    /\ UNCHANGED << clock, remote, cfg, ret, changes, loaded, wsha, failed, updOk,
                    drv, checker >>

\* Time passes between any two steps of the caller of update_knowledge_base.
Tick ==
    /\ clock < MaxClock
    /\ clock' = clock + 1
    /\ UNCHANGED << remote, cfg, pc, ret, changes, response, patterns, kb, loaded,
                    wsha, failed, updOk, similarities, calls, drv, checker >>

update_knowledge_base(r) ==
    \/ update_knowledge_base_unconfigured(r)
    \/ update_knowledge_base_load(r)
    \/ update_knowledge_base_get_contents(r)
    \/ update_knowledge_base_update_file(r)
    \/ update_knowledge_base_create_file(r)

run(r) ==
    \/ run_get_changes(r)
    \/ run_extract(r)
    \/ run_save(r)
    \/ update_knowledge_base(r)
    \/ run_load(r)
    \/ run_find(r)
    \/ run_notify(r)

IdleDriver == [n |-> 0, before |-> NoFile, log |-> <<>>]

IdleChecker == [pc |-> "off"]

InitLocals ==
    /\ clock = 0
    /\ ret = [r \in Runs |-> "load2"]
    /\ changes = [r \in Runs |-> Empty]
    /\ response = [r \in Runs |-> Empty]
    /\ kb = [r \in Runs |-> Empty]
    /\ loaded = [r \in Runs |-> Empty]
    /\ wsha = [r \in Runs |-> Empty]
    /\ failed = [r \in Runs |-> FALSE]
    /\ updOk = [r \in Runs |-> FALSE]
    /\ similarities = [r \in Runs |-> <<>>]
    /\ calls = [r \in Runs |-> {}]

Init ==
    /\ InitLocals
    /\ remote \in {NoFile, SeedDoc}
    /\ cfg \in [Runs -> {[kb_repo_name |-> k] : k \in {None, KbRepo}}]
    /\ pc = [r \in Runs |-> "start"]
    /\ patterns = [r \in Runs |-> Empty]
    /\ drv = IdleDriver
    /\ checker = IdleChecker

\* The analyzer never compares two timestamps; the two runs fall within one
\* reading of the clock.
Next == \E r \in Runs : run(r)

Spec == Init /\ [][Next]_vars

-----------------------------------------------------------------------------
(* update_knowledge_base called directly, again and again, by one writer *)

Writer == 1

\* pattern_data handed to the calls
CallRecords == { SeedRecord, ErrorRecord("api error") }

\* The caller notes the document, then calls update_knowledge_base(rec).
kb_call ==
    /\ pc[Writer] = "idle"
    /\ drv.n < MaxCalls
    /\ \E rec \in CallRecords : patterns' = [patterns EXCEPT ![Writer] = rec]
    /\ drv' = [drv EXCEPT !.n = @ + 1, !.before = remote]
    /\ pc' = [pc EXCEPT ![Writer] = "update"]
    /\ ret' = [ret EXCEPT ![Writer] = "returned"]
    /\ failed' = [failed EXCEPT ![Writer] = FALSE]
    /\ updOk' = [updOk EXCEPT ![Writer] = FALSE]
    /\ UNCHANGED << clock, remote, cfg, changes, response, kb, loaded, wsha,
                    similarities, calls, checker >>

\* The call has returned; the caller notes the document again.
kb_return ==
    /\ pc[Writer] = "returned"
    /\ drv' = [drv EXCEPT !.log = Append(@,
                  [rec |-> patterns[Writer], before |-> drv.before, after |-> remote,
                   ok |-> updOk[Writer] /\ ~failed[Writer]])]
    /\ pc' = [pc EXCEPT ![Writer] = "idle"]
    /\ UNCHANGED << clock, remote, cfg, ret, changes, response, patterns, kb, loaded,
                    wsha, failed, updOk, similarities, calls, checker >>

InitKB ==
    /\ InitLocals
    /\ remote \in {NoFile, SeedDoc}
    /\ cfg \in { [r \in Runs |-> [kb_repo_name |-> IF r = Writer THEN k ELSE KbRepo]] :
                 k \in {None, KbRepo} }
    /\ pc = [r \in Runs |-> IF r = Writer THEN "idle" ELSE "done"]
    /\ patterns = [r \in Runs |-> Empty]
    /\ drv = IdleDriver
    /\ checker = IdleChecker

NextKB == Tick \/ kb_call \/ kb_return \/ update_knowledge_base(Writer)

SpecKB == InitKB /\ [][NextKB]_vars

-----------------------------------------------------------------------------
(* find_similar_patterns on knowledge bases of any content *)

Stamped(d) == Put(Put(d, "analyzed_at", 0), "commit_sha", "sha0")

Keywords(kw, pat) ==
    [patterns |-> pat, decisions |-> <<>>, reusable_components |-> <<>>,
     dependencies |-> <<>>, problem_domain |-> "d", keywords |-> kw]

\* Latest records of the repositories already in the document
StoredRecords ==
    { Stamped(Keywords(<<"b", "c", "d">>, <<>>)),
      Stamped(Keywords(<<"http", "retry", "retry">>, <<"retry logic">>)),
      Stamped(Keywords(<<"x">>, <<"Retry Logic">>)) }

\* Records of the commit under analysis
CurrentRecords ==
    { Stamped(Keywords(<<"a", "b", "c">>, <<>>)),
      Stamped(Keywords(<<"http", "cache">>, <<"retry logic">>)),
      Stamped(Keywords(<<"c", "http", "retry", "c">>, <<"retry logic", "retry logic">>)) }

\* Repository names, in the order they entered the document
SimNames == << "org/r1", "org/a", "org/r3", "org/r4", "org/r5", "org/r6", "org/r7",
               "org/r8", "org/r9" >>

Analyst == 1

\* Some run of another repository has put its record into the document.
sim_seed ==
    /\ pc[Analyst] = "seed"
    /\ Len(remote.repositories) < Min(MaxSimRepos, Len(SimNames))
    /\ \E rec \in StoredRecords :
         remote' = [remote EXCEPT !.repositories =
                       Append(@, [name |-> SimNames[Len(remote.repositories) + 1],
                                  data |-> [patterns |-> rec,
                                            history |-> << [timestamp |-> 0,
                                                            commit_sha |-> "sha0",
                                                            patterns |-> rec] >>]])]
    /\ UNCHANGED << clock, cfg, pc, ret, changes, response, patterns, kb, loaded,
                    wsha, failed, updOk, similarities, calls, drv, checker >>

\* run() has come to step 4.
sim_start ==
    /\ pc[Analyst] = "seed"
    /\ pc' = [pc EXCEPT ![Analyst] = "load2"]
    /\ UNCHANGED << clock, remote, cfg, ret, changes, response, patterns, kb, loaded,
                    wsha, failed, updOk, similarities, calls, drv, checker >>

InitSim ==
    /\ InitLocals
    /\ remote = [repositories |-> <<>>, last_updated |-> 0]
    /\ cfg = [r \in Runs |-> [kb_repo_name |-> KbRepo]]
    /\ pc = [r \in Runs |-> IF r = Analyst THEN "seed" ELSE "done"]
    /\ patterns \in { [r \in Runs |-> IF r = Analyst THEN rec ELSE Empty] :
                      rec \in CurrentRecords }
    /\ drv = IdleDriver
    /\ checker = IdleChecker

NextSim ==
    \/ sim_seed
    \/ sim_start
    \/ run_load(Analyst)
    \/ run_find(Analyst)
    \/ run_notify(Analyst)

SpecSim == InitSim /\ [][NextSim]_vars

-----------------------------------------------------------------------------
(* PreCommitChecker: the pre-commit hook process *)

\* Python truthiness of a string setting
TruthyStr(x) == x # None /\ x # ""

Whitespace == { " ", "\n" }

RECURSIVE LStrip(_)
LStrip(t) ==
    IF t = <<>> THEN <<>>
    ELSE IF Head(t) \in Whitespace THEN LStrip(Tail(t)) ELSE t

RECURSIVE RStrip(_)
RStrip(t) ==
    IF t = <<>> THEN <<>>
    ELSE IF Last(t) \in Whitespace THEN RStrip(SubSeq(t, 1, Len(t) - 1)) ELSE t

\* str.strip(), on a text given as its characters
Strip(t) == RStrip(LStrip(t))

LowerChar(c) ==
    CASE c = "Y" -> "y"
      [] c = "E" -> "e"
      [] c = "S" -> "s"
      [] c = "N" -> "n"
      [] OTHER -> c

\* str.lower() with every character left as typed
LowerKeepCase(t) == t

\* str.lower()
Lower(t) == [ i \in DOMAIN t |-> LowerChar(t[i]) ]

\* stdout of git diff --cached; a failing git gives ""
StagedOutcomes == { [ok |-> FALSE, stdout |-> <<"+", "x">>],
                    [ok |-> TRUE, stdout |-> <<>>],
                    [ok |-> TRUE, stdout |-> <<" ", "\n">>],
                    [ok |-> TRUE, stdout |-> <<"+", "x", "\n">>],
                    [ok |-> TRUE, stdout |-> <<"\n", "-", "y">>] }

get_staged_changes(git) == IF git.ok THEN git.stdout ELSE <<>>

NoneValue == [none |-> TRUE]

Item(name, rec) == [name |-> name, data |-> [patterns |-> rec]]

\* Documents the knowledge-base URL may serve
ServedDocs ==
    { Empty,
      [repositories |-> <<>>],
      [repositories |-> << Item("org/a", SeedRecord) >>],
      [repositories |-> << Item("org/z", Empty) >>],
      [repositories |-> << Item("org/a", SeedRecord), Item("org/z", SeedRecord) >>] }

fetch_knowledge_base(kb_url, get) ==
    IF ~TruthyStr(kb_url) THEN NoneValue
    ELSE IF get.ok THEN get.json ELSE NoneValue

\* not kb or not kb.get('repositories')
NoKnowledgeBase(doc) ==
    \/ doc = NoneValue
    \/ DOMAIN doc = {}
    \/ Get(doc, "repositories", <<>>) = <<>>

\* Lines 75-81
RECURSIVE OtherReposSummary(_, _)
OtherReposSummary(items, current_repo) ==
    IF items = <<>> THEN <<>>
    ELSE LET rest == OtherReposSummary(Tail(items), current_repo)
             pats == Get(Head(items).data, "patterns", Empty)
         IN IF Head(items).name = current_repo THEN rest
            ELSE IF DOMAIN pats = {} THEN rest
            ELSE << [repo |-> Head(items).name,
                     patterns |-> Take(Get(pats, "patterns", <<>>), 3)] >> \o rest

Warning == [message |-> "similar retry logic", similar_repo |-> "org/z",
            suggestion |-> "reuse it"]

CheckResponses ==
    { [api |-> "error", text |-> <<>>],
      [api |-> "ok", text |-> <<Fence, Broken, Fence>>],
      [api |-> "ok", text |-> <<Obj([has_similarities |-> FALSE, warnings |-> <<>>])>>],
      [api |-> "ok", text |-> <<Obj([has_similarities |-> FALSE])>>],
      [api |-> "ok", text |-> <<Fence, Obj([has_similarities |-> TRUE,
                                           warnings |-> <<Warning>>]), Fence>>],
      [api |-> "ok", text |-> <<Obj([has_similarities |-> TRUE,
                                     warnings |-> <<Warning, [message |-> "m"]>>])>>] }

\* Lines 110-126: the reply's warnings, [] on any failure
ParseWarnings(resp) ==
    IF resp.api # "ok" THEN <<>>
    ELSE LET parsed == JsonLoads(StripFences(resp.text))
         IN IF parsed.ok THEN Get(parsed.value, "warnings", <<>>) ELSE <<>>

\* quick_pattern_check, lines 67-126: the warnings, and whether the LLM was asked
quick_pattern_check(diff_content, kbdoc, current_repo, resp) ==
    IF Strip(diff_content) = <<>> THEN [warnings |-> <<>>, asked |-> FALSE]
    ELSE IF OtherReposSummary(Get(kbdoc, "repositories", <<>>), current_repo) = <<>>
         THEN [warnings |-> <<>>, asked |-> FALSE]
    ELSE [warnings |-> ParseWarnings(resp), asked |-> TRUE]

\* What the terminal hands to input(): a line, or end of input
Answers == { [eof |-> TRUE, line |-> <<>>],
             [eof |-> FALSE, line |-> <<>>],
             [eof |-> FALSE, line |-> <<"y">>],
             [eof |-> FALSE, line |-> <<"Y">>],
             [eof |-> FALSE, line |-> <<"n">>],
             [eof |-> FALSE, line |-> <<"N">>],
             [eof |-> FALSE, line |-> <<" ", "y">>],
             [eof |-> FALSE, line |-> <<"y", "e", "s">>],
             [eof |-> FALSE, line |-> <<"Y", "E", "S">>] }

NoAnswer == [eof |-> FALSE, line |-> <<"-">>]

Exits(status) == [checker EXCEPT !.pc = "exit", !.status = status]

OtherVars == << clock, remote, cfg, pc, ret, changes, response, patterns, kb, loaded,
                wsha, failed, updOk, similarities, calls, drv >>

\* __init__, lines 16-22
pre_init ==
    /\ checker.pc = "init"
    /\ checker' = IF TruthyStr(checker.api_key)
                  THEN [checker EXCEPT !.pc = "staged"]
                  ELSE Exits(0)
    /\ UNCHANGED OtherVars

\* run, lines 132-136
pre_get_staged_changes ==
    /\ checker.pc = "staged"
    /\ \E git \in StagedOutcomes :
         LET diff == get_staged_changes(git)
         IN checker' = IF Strip(diff) = <<>>
                       THEN [Exits(0) EXCEPT !.diff = diff]
                       ELSE [checker EXCEPT !.pc = "fetch", !.diff = diff]
    /\ UNCHANGED OtherVars

\* run, lines 138-142
pre_fetch_knowledge_base ==
    /\ checker.pc = "fetch"
    /\ \E get \in { [ok |-> FALSE, json |-> Empty] } \cup
                  { [ok |-> TRUE, json |-> d] : d \in ServedDocs } :
         LET doc == fetch_knowledge_base(checker.kb_url, get)
             net == IF TruthyStr(checker.kb_url) THEN {"kb_fetch"} ELSE {}
         IN checker' = IF NoKnowledgeBase(doc)
                       THEN [Exits(0) EXCEPT !.kb = doc, !.network = @ \cup net]
                       ELSE [checker EXCEPT !.pc = "check", !.kb = doc,
                                            !.network = @ \cup net]
    /\ UNCHANGED OtherVars

\* run, lines 144-147 and 159-162
pre_quick_pattern_check ==
    /\ checker.pc = "check"
    /\ \E current_repo \in {"org/a", "unknown/repo"}, resp \in CheckResponses :
         LET check == quick_pattern_check(checker.diff, checker.kb, current_repo, resp)
             warnings == check.warnings
             net == IF check.asked THEN {"llm"} ELSE {}
         IN checker' = IF warnings # <<>>
                       THEN [checker EXCEPT !.pc = "prompt", !.warnings = warnings,
                                            !.current_repo = current_repo,
                                            !.network = @ \cup net]
                       ELSE [Exits(0) EXCEPT !.current_repo = current_repo,
                                             !.network = @ \cup net]
    /\ UNCHANGED OtherVars

\* The keys lines 150-152 read of every warning
WarningKeys == { "message", "similar_repo", "suggestion" }

Printable(warnings) ==
    \A i \in DOMAIN warnings : WarningKeys \subseteq DOMAIN warnings[i]

\* run, lines 148-158 and 162. A warning without one of its keys raises KeyError
\* while the warnings are printed, and end of input raises EOFError in input():
\* either leaves run, and the interpreter ends with status 1.
pre_prompt ==
    /\ checker.pc = "prompt"
    /\ \E ans \in Answers :
         checker' = IF ~Printable(checker.warnings) THEN Exits(1)
                    ELSE IF ans.eof
                    THEN [Exits(1) EXCEPT !.prompted = TRUE, !.answer = ans]
                    ELSE LET resp == Lower(ans.line)
                         IN [Exits(IF resp # <<"y">> THEN 1 ELSE 0)
                               EXCEPT !.prompted = TRUE, !.answer = ans]
    /\ UNCHANGED OtherVars

InitPre ==
    /\ InitLocals
    /\ remote = NoFile
    /\ cfg = [r \in Runs |-> [kb_repo_name |-> None]]
    /\ pc = [r \in Runs |-> "done"]
    /\ patterns = [r \in Runs |-> Empty]
    /\ drv = IdleDriver
    /\ \E key \in {None, "", "sk-key"}, url \in {None, "", "https://kb"} :
         checker = [pc |-> "init", api_key |-> key, kb_url |-> url, diff |-> <<>>,
                    kb |-> NoneValue, current_repo |-> None, warnings |-> <<>>,
                    answer |-> NoAnswer, prompted |-> FALSE, network |-> {},
                    status |-> -1]

NextPre ==
    \/ pre_init
    \/ pre_get_staged_changes
    \/ pre_fetch_knowledge_base
    \/ pre_quick_pattern_check
    \/ pre_prompt

SpecPre == InitPre /\ [][NextPre]_vars

-----------------------------------------------------------------------------
(* Properties of the analyzer *)

UpdatePcs == { "update", "u_get_contents", "u_update", "u_create" }

WritePcs == { "u_update", "u_create" }

\* Run r takes this step.
Moves(r) == pc'[r] # pc[r]

HistoryOf(doc, name) ==
    IF doc = NoFile THEN <<>>
    ELSE IF ~HasRepo(doc, name) THEN <<>>
    ELSE RepoData(doc, name).history

\* The items of the other repositories, in order
OthersOf(doc, name) ==
    IF doc = NoFile THEN <<>>
    ELSE SelectSeq(doc.repositories, LAMBDA it : it.name # name)

\* C1: a repository name that is a key of the remote document's 'repositories'
\* before a step of update_knowledge_base is still a key of it afterwards,
\* whatever remote operation fails (single writer).
C1_KnownRepositoriesKept ==
    [][ remote # NoFile =>
          /\ remote' # NoFile
          /\ RepoNames(remote) \subseteq RepoNames(remote') ]_vars

DocInSync(doc) ==
    \A i \in DOMAIN doc.repositories :
        LET d == doc.repositories[i].data
        IN /\ d.history # <<>>
           /\ d.patterns = Last(d.history).patterns

\* C2: in every document written, each repository's 'patterns' is the 'patterns'
\* of the last entry of its 'history'; a successful update appends exactly one
\* entry, holding the record, to the history it found, and makes the record the
\* latest; two successful updates in a row with the same record grow the
\* history by two and leave the latest value equal to the record.
C2_LatestInSyncAndOneEntryPerUpdate ==
    /\ remote # NoFile => DocInSync(remote)
    /\ \A r \in Runs : pc[r] \in WritePcs \cup {"u_get_contents"} => DocInSync(kb[r])
    /\ \A i \in DOMAIN drv.log :
         LET o == drv.log[i]
             hb == HistoryOf(o.before, CurrentRepo(Writer))
             ha == HistoryOf(o.after, CurrentRepo(Writer))
         IN o.ok =>
              /\ Len(ha) = Len(hb) + 1
              /\ SubSeq(ha, 1, Len(hb)) = hb
              /\ Last(ha).patterns = o.rec
              /\ RepoData(o.after, CurrentRepo(Writer)).patterns = o.rec
    /\ \A i \in DOMAIN drv.log :
         (i + 1 \in DOMAIN drv.log /\ drv.log[i].ok /\ drv.log[i + 1].ok
            /\ drv.log[i].rec = drv.log[i + 1].rec) =>
              /\ Len(HistoryOf(drv.log[i + 1].after, CurrentRepo(Writer)))
                   = Len(HistoryOf(drv.log[i].before, CurrentRepo(Writer))) + 2
              /\ RepoData(drv.log[i].after, CurrentRepo(Writer)).patterns = drv.log[i].rec
              /\ RepoData(drv.log[i + 1].after, CurrentRepo(Writer)).patterns = drv.log[i].rec

\* Two successful updates in a row with the same record have been observed.
C2_Witness ==
    \E i \in DOMAIN drv.log :
        /\ i + 1 \in DOMAIN drv.log
        /\ drv.log[i].ok /\ drv.log[i + 1].ok
        /\ drv.log[i].rec = drv.log[i + 1].rec
        /\ Len(HistoryOf(drv.log[i + 1].after, CurrentRepo(Writer))) = 2

\* C3: once a remote read or write of an update has failed, no step of that
\* update replaces the remote document, and the update returns into run(), which
\* goes on to load the knowledge base.
C3_FailedUpdateIsSkipped ==
    [][ \A r \in Runs :
          (pc[r] \in UpdatePcs /\ Moves(r)) =>
             /\ failed'[r] => remote' = remote
             /\ pc'[r] \in UpdatePcs \cup {ret[r]} ]_vars

SideEffects == { "llm", "file", "kb_read", "kb_write", "webhook" }

\* C4: a run whose get_recent_changes returned the error marker has ended and
\* has made no LLM call, written no local file, neither read nor written the
\* knowledge base and posted no notification.
C4_ErrorMarkerAbortsWithoutSideEffects ==
    \A r \in Runs :
        "error" \in DOMAIN changes[r] =>
            /\ pc[r] = "done"
            /\ calls[r] \cap SideEffects = {}
            /\ ~updOk[r]

\* A run has been aborted by the error marker while the other run got through
\* its update.
C4_Witness ==
    \E r \in Runs, q \in Runs :
        /\ "error" \in DOMAIN changes[r]
        /\ pc[r] = "done"
        /\ q # r /\ updOk[q]

\* The LLM call raised, or its reply is no JSON.
LLMFailed(r) ==
    /\ response[r] # Empty
    /\ \/ response[r].api = "error"
       \/ Broken \in ToSet(response[r].text)

IsDegradedRecord(rec) ==
    /\ "error" \in DOMAIN rec
    /\ rec.patterns = <<>> /\ rec.decisions = <<>> /\ rec.reusable_components = <<>>
    /\ rec.dependencies = <<>> /\ rec.keywords = <<>>
    /\ rec.problem_domain = "unknown"

\* C5: after a failed LLM call or an unparsable reply the run holds a record
\* with empty lists, problem_domain 'unknown' and an error field; the run goes
\* on to update_knowledge_base with that record, and the document the update
\* writes has it as the new last entry of the repository's history.
C5_LlmFailureDegradesAndIsRecorded ==
    /\ [](\A r \in Runs : LLMFailed(r) =>
             /\ pc[r] \in {"save", "load2", "find", "notify"} \cup UpdatePcs
             /\ IsDegradedRecord(patterns[r]))
    /\ [][ \A r \in Runs : (LLMFailed(r) /\ Moves(r)) =>
             /\ pc[r] = "save" => (pc'[r] = "update" /\ patterns'[r] = patterns[r])
             /\ (pc[r] \in WritePcs /\ remote' # remote) =>
                   LET h == HistoryOf(remote', CurrentRepo(r))
                   IN /\ Len(h) = Len(HistoryOf(loaded[r], CurrentRepo(r))) + 1
                      /\ Last(h).patterns = patterns[r]
                      /\ IsDegradedRecord(Last(h).patterns) ]_vars

\* A run whose LLM call failed has written its update.
C5_Witness ==
    \E r \in Runs :
        /\ LLMFailed(r)
        /\ pc[r] = "load2" /\ updOk[r]
        /\ remote # NoFile /\ HasRepo(remote, CurrentRepo(r))
        /\ IsDegradedRecord(RepoData(remote, CurrentRepo(r)).patterns)

\* C6: a write replaces the whole document by the copy the run loaded and
\* changed in memory: the other repositories' items in the document written are
\* those the run loaded, whatever another run has written since; nothing in the
\* write compares the file with what was loaded.
C6_WriteReplacesWithLoadedCopy ==
    [][ \A r \in Runs :
          (pc[r] \in WritePcs /\ Moves(r) /\ remote' # remote) =>
              /\ OthersOf(remote', CurrentRepo(r)) = OthersOf(loaded[r], CurrentRepo(r))
              /\ updOk'[r] ]_vars

\* Both runs finished their update with no failed operation and no retry, and
\* the document holds the entry of one of them only.
C6_Witness ==
    \E r \in Runs, q \in Runs :
        /\ r # q
        /\ pc[r] = "load2" /\ pc[q] = "load2"
        /\ updOk[r] /\ updOk[q] /\ ~failed[r] /\ ~failed[q]
        /\ remote # NoFile
        /\ HasRepo(remote, CurrentRepo(q))
        /\ ~HasRepo(remote, CurrentRepo(r))

StampFields == { "analyzed_at", "commit_sha" }

\* C10: every record extract_patterns_with_llm returned carries analyzed_at and
\* commit_sha, and so does every 'patterns' value stored in the knowledge base.
C10_EveryRecordStamped ==
    /\ \A r \in Runs :
         pc[r] \in {"save", "load2", "find", "notify"} \cup UpdatePcs =>
             StampFields \subseteq DOMAIN patterns[r]
    /\ remote # NoFile =>
         \A i \in DOMAIN remote.repositories :
             LET d == remote.repositories[i].data
             IN /\ StampFields \subseteq DOMAIN d.patterns
                /\ \A j \in DOMAIN d.history : StampFields \subseteq DOMAIN d.history[j].patterns

-----------------------------------------------------------------------------
(* Properties of the pre-commit checker *)

\* The user typed the affirmative: y, in either case.
Affirmative(ans) == ~ans.eof /\ ans.line \in { <<"y">>, <<"Y">> }

\* C7: the checker ends with status 1 exactly when quick_pattern_check returned
\* a warning and the user has not answered the prompt with y or Y; every other
\* path ends with status 0: no API key (and then no network call), nothing
\* staged, no knowledge base or none with repositories, no warnings from the
\* check, an answer of y or Y; the prompt is issued only when warnings were
\* found, and always when they were found and could be printed.
C7_ExitStatus ==
    checker.pc = "exit" =>
        /\ checker.status \in {0, 1}
        /\ checker.status = 1 <=>
              (checker.warnings # <<>> /\ ~Affirmative(checker.answer))
        /\ checker.prompted => checker.warnings # <<>>
        /\ (checker.warnings # <<>> /\ Printable(checker.warnings)) => checker.prompted
        /\ ~TruthyStr(checker.api_key) =>
              (checker.status = 0 /\ checker.network = {} /\ ~checker.prompted)
        /\ (Strip(checker.diff) = <<>> \/ NoKnowledgeBase(checker.kb)) =>
              (checker.status = 0 /\ "llm" \notin checker.network)

\* Warnings were found and the user answered Y: the commit goes through.
C7_Witness ==
    /\ checker.pc = "exit"
    /\ checker.warnings # <<>>
    /\ checker.prompted
    /\ checker.answer.line = <<"Y">>
    /\ checker.status = 0

-----------------------------------------------------------------------------
(* Properties of find_similar_patterns *)

\* x is an element of the list
Occurs(x, list) == \E i \in DOMAIN list : list[i] = x

\* The strings two lists share, each once
Shared(a, b) == { x \in ToSet(a) : Occurs(x, b) }

\* The items of the document run r holds, and the overlaps of item i with the
\* record of run r
ItemsOf(r) == Get(kb[r], "repositories", <<>>)

KeywordOverlap(r, i) ==
    Cardinality(Shared(patterns[r].keywords, ItemsOf(r)[i].data.patterns.keywords))

PatternOverlap(r, i) ==
    Cardinality(Shared(patterns[r].patterns, ItemsOf(r)[i].data.patterns.patterns))

Eligible(r, i) ==
    /\ ItemsOf(r)[i].name # CurrentRepo(r)
    /\ (KeywordOverlap(r, i) > 0 \/ PatternOverlap(r, i) > 0)

Combined(r, i) == KeywordOverlap(r, i) + PatternOverlap(r, i)

\* The place in the document of the repository of result k
PlaceOf(r, k) ==
    CHOOSE i \in DOMAIN ItemsOf(r) : ItemsOf(r)[i].name = similarities[r][k].repository

\* find_similar_patterns has returned and its result is at hand.
Found(r) == pc[r] = "notify"

\* C8: the result holds the first 5 (or fewer) eligible repositories in
\* descending order of keyword_overlap + pattern_overlap: every entry is an
\* eligible repository (not the current one, some overlap positive), none
\* twice; no eligible repository left out scores higher than one included; and
\* equally scored repositories are in the document's order, those left out
\* behind those included.
C8_TopFiveDescendingStable ==
    \A r \in Runs : Found(r) =>
        LET res == similarities[r]
            elig == { i \in DOMAIN ItemsOf(r) : Eligible(r, i) }
            shown == { PlaceOf(r, k) : k \in DOMAIN res }
        IN /\ Len(res) = Min(TopN, Cardinality(elig))
           /\ \A k \in DOMAIN res :
                /\ \E i \in elig : ItemsOf(r)[i].name = res[k].repository
                /\ res[k].repository # CurrentRepo(r)
                /\ Score(res[k]) = Combined(r, PlaceOf(r, k))
           /\ Cardinality(shown) = Len(res)
           /\ \A k \in DOMAIN res, m \in DOMAIN res :
                k < m => \/ Score(res[k]) > Score(res[m])
                         \/ /\ Score(res[k]) = Score(res[m])
                            /\ PlaceOf(r, k) < PlaceOf(r, m)
           /\ \A i \in elig \ shown, k \in DOMAIN res :
                \/ Combined(r, i) < Score(res[k])
                \/ /\ Combined(r, i) = Score(res[k])
                   /\ PlaceOf(r, k) < i

\* More than 5 repositories are eligible, the current repository is in the
\* document, two results tie, and an eligible repository with the score of the
\* last result is left out.
C8_Witness ==
    \E r \in Runs :
        /\ Found(r)
        /\ Cardinality({ i \in DOMAIN ItemsOf(r) : Eligible(r, i) }) > TopN
        /\ \E i \in DOMAIN ItemsOf(r) : ItemsOf(r)[i].name = CurrentRepo(r)
        /\ Len(similarities[r]) = TopN
        /\ Score(similarities[r][1]) > Score(similarities[r][TopN])
        /\ \E k \in 1..(TopN - 1) :
              Score(similarities[r][k]) = Score(similarities[r][k + 1])
        /\ \E i \in DOMAIN ItemsOf(r) :
              /\ Eligible(r, i)
              /\ \A k \in 1..TopN : PlaceOf(r, k) # i
              /\ Combined(r, i) = Score(similarities[r][TopN])

\* C9: in every entry returned, keyword_overlap is the number of strings the
\* two keywords lists share and pattern_overlap the number the two patterns
\* lists share (exact equality, each string once), and matching_keywords and
\* matching_patterns are exactly those strings; keywords a,b,c against b,c,d
\* give 2 and {b,c}; patterns [retry logic], keywords [http,cache] against
\* [retry logic], [http,retry] give 1, 1 and {retry logic}.
C9_OverlapsAreSetIntersections ==
    \A r \in Runs : Found(r) =>
        \A k \in DOMAIN similarities[r] :
            LET e == similarities[r][k]
                mine == patterns[r]
                theirs == ItemsOf(r)[PlaceOf(r, k)].data.patterns
            IN /\ e.repo_patterns = theirs
               /\ e.matching_keywords = Shared(mine.keywords, theirs.keywords)
               /\ e.matching_patterns = Shared(mine.patterns, theirs.patterns)
               /\ e.keyword_overlap = Cardinality(Shared(mine.keywords, theirs.keywords))
               /\ e.pattern_overlap = Cardinality(Shared(mine.patterns, theirs.patterns))
               /\ (mine.keywords = <<"a", "b", "c">> /\ theirs.keywords = <<"b", "c", "d">>) =>
                     (e.keyword_overlap = 2 /\ e.matching_keywords = {"b", "c"})
               /\ (mine.keywords = <<"http", "cache">> /\ mine.patterns = <<"retry logic">>
                     /\ theirs.keywords = <<"http", "retry">>
                     /\ theirs.patterns = <<"retry logic">>) =>
                     (e.keyword_overlap = 1 /\ e.pattern_overlap = 1
                        /\ e.matching_patterns = {"retry logic"})

\* Keywords a,b,c have been matched against b,c,d, and the same result holds
\* an entry with a smaller overlap.
C9_Witness ==
    \E r \in Runs :
        /\ Found(r)
        /\ patterns[r].keywords = <<"a", "b", "c">>
        /\ \E k \in DOMAIN similarities[r] :
              /\ similarities[r][k].repo_patterns.keywords = <<"b", "c", "d">>
              /\ similarities[r][k].keyword_overlap = 2
              /\ similarities[r][k].matching_keywords = {"b", "c"}

=============================================================================
